---- MODULE Spec2Model ----
(***************************************************************************)
(* Document-retrieval visualizers: tokenization.js, bag_of_words.js, the   *)
(* TF-IDF page (unnamed/part_001) and the two Okapi BM25 pages (bm25.js    *)
(* and unnamed/part_000).  Each page is a separate program with its own    *)
(* module-scope variables and DOM fields; each gets its own specification. *)
(*                                                                         *)
(* A JavaScript string is modelled as the sequence of its characters, each *)
(* character a one-character TLA+ string, so that toLowerCase, the split   *)
(* regular expression and Array.prototype.sort act on characters as the    *)
(* code does.                                                              *)
(***************************************************************************)
EXTENDS Integers, Sequences, FiniteSets, TLC

\* ------------------------------------------------------------------------
\* Bounds of the model
\* ------------------------------------------------------------------------
MaxWords == 2        \* words in the text typed into the tokenization page
MaxBm25Words == 2    \* words in the query and in a document of a BM25 page
MaxBowWords == 3     \* words in the query and in document 1 of the bag-of-words page
MaxTfIdfWords == 2   \* words in the query and in document 1 of the TF-IDF page
MaxOps == 3          \* lemmatize / remove-stop-words clicks after one tokenizeText
MaxEdits == 1        \* edits of a text field of the live page

\* ------------------------------------------------------------------------
\* State: the page that is open, and per page its module-scope variables and
\* the fields of its document
\* ------------------------------------------------------------------------
VARIABLES page         \* the script the open page runs

\* tokenization.js
VARIABLES inputText,   \* value of the #inputText field
          tokens,      \* the module variable tokens: Token objects in order
          vocabInfo,   \* the sorted vocabulary shown in #vocabInfo
          applied      \* history: the operations run since the last tokenizeText
                       \* (since the page load, marked "load", before the first)

\* bm25.js and unnamed/part_000
VARIABLES bm25Dom,     \* the page's fields: queryText, d1Text, d2Text, d3Text,
                       \* k1, b (values) and scores, k1Val, bVal (contents)
          bm25         \* the module variables docs, vocab, idf, docLengths,
                       \* avgDocLength, scores, termContribs

\* bag_of_words.js
VARIABLES bowDom,      \* the page's fields: queryText, doc1Text, doc2Text (values)
                       \* and scores (the four numbers shown)
          bow          \* the module variables vocab, qVec, d1Vec, d2Vec, scores

\* unnamed/part_001 (TF-IDF)
VARIABLES tfidfDom,    \* the page's fields: queryText, d1Text, d2Text, d3Text
                       \* (values) and scores (the numbers shown)
          tfidf        \* the module variables vocab, idf, queryTf, docsTf,
                       \* docsTfidf, queryTfidf, scores

\* every page
VARIABLES edits,       \* history: how often a text field was edited since the
                       \* first computation
          canvas       \* what the last frame painted (empty before the first)

tokVars == <<inputText, tokens, vocabInfo, applied>>
bm25Vars == <<bm25Dom, bm25>>
bowVars == <<bowDom, bow>>
tfidfVars == <<tfidfDom, tfidf>>
vars == <<page, tokVars, bm25Vars, bowVars, tfidfVars, edits, canvas>>

\* ------------------------------------------------------------------------
\* Characters
\* ------------------------------------------------------------------------
UpperSeq == <<"A","B","C","D","E","F","G","H","I","J","K","L","M",
              "N","O","P","Q","R","S","T","U","V","W","X","Y","Z">>

LowerSeq == <<"a","b","c","d","e","f","g","h","i","j","k","l","m",
              "n","o","p","q","r","s","t","u","v","w","x","y","z">>

DigitSeq == <<"0","1","2","3","4","5","6","7","8","9">>

\* The right single quotation mark of two surface forms of lemmaMapping
\* (one character; written by its code point, the module being ASCII).
RightQuote == "U+2019"

\* The characters of the model in increasing UTF-16 code unit order.
CodeOrder == <<" ", "'", "(", ")", ",">> \o DigitSeq \o UpperSeq \o <<"[", "]">>
             \o LowerSeq \o <<"{", "}", RightQuote>>

Range(s) == { s[i] : i \in DOMAIN s }

CodeOf == [ c \in Range(CodeOrder) |-> CHOOSE i \in DOMAIN CodeOrder : CodeOrder[i] = c ]

Code(c) == CodeOf[c]

\* String.prototype.toLowerCase, character by character.
LowerOf == [ c \in Range(UpperSeq) |-> LowerSeq[CHOOSE j \in DOMAIN UpperSeq : UpperSeq[j] = c] ]

ToLowerCase(str) ==
    [ i \in DOMAIN str |-> IF str[i] \in DOMAIN LowerOf THEN LowerOf[str[i]] ELSE str[i] ]

\* The complement of the class [^\p{L}\p{N}'] of the split expression.
WordChars == Range(UpperSeq) \cup Range(LowerSeq) \cup Range(DigitSeq) \cup {"'"}

IsWordChar(c) == c \in WordChars

\* str.split(/[^\p{L}\p{N}']+/u): the pieces between maximal separator runs;
\* a leading or trailing run leaves an empty piece at that end, and the
\* empty string splits into one empty piece.
RECURSIVE SplitFrom(_, _, _, _)
SplitFrom(str, i, cur, inSep) ==
    IF i > Len(str) THEN <<cur>>
    ELSE IF IsWordChar(str[i]) THEN SplitFrom(str, i + 1, Append(cur, str[i]), FALSE)
    ELSE IF inSep THEN SplitFrom(str, i + 1, cur, TRUE)
    ELSE <<cur>> \o SplitFrom(str, i + 1, <<>>, TRUE)

Split(str) == SplitFrom(str, 1, <<>>, FALSE)

\* A variant of FilterNonEmpty that keeps every piece.
FilterNothing(seq) == seq

\* .filter((t) => t.length > 0)
FilterNonEmpty(seq) == SelectSeq(seq, LAMBDA t : Len(t) > 0)

\* Lexicographic order by code unit: the default comparator of sort().
RECURSIVE StrLess(_, _)
StrLess(s, t) ==
    IF Len(t) = 0 THEN FALSE
    ELSE IF Len(s) = 0 THEN TRUE
    ELSE IF Code(Head(s)) # Code(Head(t)) THEN Code(Head(s)) < Code(Head(t))
    ELSE StrLess(Tail(s), Tail(t))

\* A variant of Distinct that keeps the last occurrence of an element.
RECURSIVE DistinctKeepLast(_)
DistinctKeepLast(seq) ==
    IF Len(seq) = 0 THEN <<>>
    ELSE IF seq[1] \in Range(Tail(seq)) THEN DistinctKeepLast(Tail(seq))
    ELSE <<seq[1]>> \o DistinctKeepLast(Tail(seq))

\* Array.from(new Set(seq)): the distinct elements in first-occurrence order.
RECURSIVE Distinct(_)
Distinct(seq) ==
    IF Len(seq) = 0 THEN <<>>
    ELSE LET init == Distinct(SubSeq(seq, 1, Len(seq) - 1))
             last == seq[Len(seq)]
         IN IF last \in Range(init) THEN init ELSE Append(init, last)

\* Array.prototype.sort() on an array of distinct strings.
RECURSIVE SortStrings(_)
SortStrings(S) ==
    IF S = {} THEN <<>>
    ELSE LET m == CHOOSE x \in S : \A y \in S \ {x} : StrLess(x, y)
         IN <<m>> \o SortStrings(S \ {m})

RECURSIVE Join(_, _)
Join(words, sep) ==
    IF Len(words) = 0 THEN <<>>
    ELSE IF Len(words) = 1 THEN words[1]
    ELSE words[1] \o sep \o Join(Tail(words), sep)

SeqsUpTo(S, n) == UNION { [1..k -> S] : k \in 0..n }

\* ------------------------------------------------------------------------
\* tokenization.js
\* ------------------------------------------------------------------------
\* Mutant of lemmaMapping: an entry whose lemma is a stop word.
lemmaMappingToStopWord == <<
    [lemma |-> <<"i","t">>,
     forms |-> <<<<"d","o","g">>, <<"d","o","g","s">>>>] >>

\* Mutant of lemmaMapping: an entry whose surface forms are stop words.
lemmaMappingWithStopForms == <<
    [lemma |-> <<"r","u","n">>,
     forms |-> <<<<"r","u","n">>, <<"r","u","n","s">>>>],
    [lemma |-> <<"b","e">>,
     forms |-> <<<<"b","e">>, <<"i","s">>, <<"a","r","e">>, <<"w","a","s">>>>] >>

\* Dictionary mapping lemmas to lists of surface forms, in insertion order.
lemmaMapping == <<
    [lemma |-> <<"b","o","b">>,
     forms |-> <<<<"b","o","b">>,
                 <<"b","o","b","s">>,
                 <<"b","o","b","'","s">>,
                 <<"b","o","b",RightQuote,"s">>>>],
    [lemma |-> <<"r","u","n">>,
     forms |-> <<<<"r","u","n">>,
                 <<"r","u","n","s">>,
                 <<"r","u","n","n","i","n","g">>,
                 <<"r","a","n">>>>],
    [lemma |-> <<"b","i","k","e">>,
     forms |-> <<<<"b","i","k","e">>,
                 <<"b","i","k","e","s">>,
                 <<"b","i","k","e","'","s">>,
                 <<"b","i","k","e",RightQuote,"s">>>>],
    [lemma |-> <<"f","o","x">>,
     forms |-> <<<<"f","o","x">>,
                 <<"f","o","x","e","s">>>>],
    [lemma |-> <<"d","o","g">>,
     forms |-> <<<<"d","o","g">>,
                 <<"d","o","g","s">>>>] >>

stopWords == {
    <<"t","h","e">>, <<"a">>, <<"a","n">>,
    <<"a","n","d">>, <<"b","u","t">>, <<"i","s">>,
    <<"a","r","e">>, <<"w","a","s">>, <<"w","e","r","e">>,
    <<"h","e">>, <<"s","h","e">>, <<"t","h","e","y">>,
    <<"o","f">>, <<"t","o">>, <<"i","n">>,
    <<"o","n">>, <<"o","v","e","r">>, <<"b","y">>,
    <<"w","i","t","h">>, <<"f","o","r">>, <<"i","t">>,
    <<"a","s">>, <<"h","i","s">>, <<"h","e","r">>,
    <<"i","t","s">> }

\* The value undefined of a failed property lookup.
Undefined == <<"undefined">>

\* String(Object): what the function Object reads as wherever the page uses
\* it (as a property key, in sort() and in join()); no token equals it, since
\* a token holds no space.
ObjectFunction == <<"f","u","n","c","t","i","o","n"," ","O","b","j","e","c","t",
                    "(",")"," ","{"," ","[","n","a","t","i","v","e"," ",
                    "c","o","d","e","]"," ","}">>

\* Flatten lemmaMapping for reverse lookup: the own properties of formToLemma.
RECURSIVE FlattenFrom(_, _)
FlattenFrom(i, acc) ==
    IF i > Len(lemmaMapping) THEN acc
    ELSE LET e == lemmaMapping[i]
         IN FlattenFrom(i + 1,
                [ f \in DOMAIN acc \cup Range(e.forms) |->
                    IF f \in Range(e.forms) THEN e.lemma ELSE acc[f] ])

formToLemma == FlattenFrom(1, <<>>)

\* formToLemma[key]: formToLemma is a plain object literal, so a key that is
\* no own property is looked up on Object.prototype.  Of its property names
\* only "constructor" can be a token (the others hold an upper-case letter or
\* an underscore); its value is the function Object.
GetProperty(key) ==
    IF key \in DOMAIN formToLemma THEN formToLemma[key]
    ELSE IF key = <<"c","o","n","s","t","r","u","c","t","o","r">> THEN ObjectFunction
    ELSE Undefined

\* if (lemma): undefined and the empty string are falsy.
Truthy(v) == v # Undefined /\ v # <<>>

\* new Token(text); the bubble coordinates x, y, targetX, targetY only feed
\* the canvas and are left out, and with them repositionTokens.
Token(text) == [original |-> text, text |-> text, removed |-> FALSE]

\* The token array tokenizeText builds from the input.
TokenizeOp(input) ==
    LET rawTokens == FilterNonEmpty(Split(ToLowerCase(input)))
    IN [ i \in DOMAIN rawTokens |-> Token(rawTokens[i]) ]

\* The forEach body of applyLemmatization on one token.
LemmatizeToken(token) ==
    IF token.removed THEN token
    ELSE LET lemma == GetProperty(token.text)
         IN IF Truthy(lemma) THEN [token EXCEPT !.text = lemma] ELSE token

LemmatizeOp(toks) == [ i \in DOMAIN toks |-> LemmatizeToken(toks[i]) ]

\* Mutant of RemoveStopWordToken: the flag is toggled instead of set.
RemoveStopWordTokenToggle(token) ==
    IF token.text \in stopWords THEN [token EXCEPT !.removed = ~@] ELSE token

\* The forEach body of removeStopWords on one token.
RemoveStopWordToken(token) ==
    IF token.text \in stopWords THEN [token EXCEPT !.removed = TRUE] ELSE token

\* Mutant of RemoveStopWordsOp: stop words are spliced out of the array.
RemoveStopWordsOpSplice(toks) == SelectSeq(toks, LAMBDA t : t.text \notin stopWords)

RemoveStopWordsOp(toks) == [ i \in DOMAIN toks |-> RemoveStopWordToken(toks[i]) ]

\* The array vocab of updateVocabularyInfo.
VocabularyOf(toks) ==
    SortStrings(Range(Distinct(
        LET kept == SelectSeq(toks, LAMBDA t : ~t.removed)
        IN [ i \in DOMAIN kept |-> kept[i].text ])))

\* The texts a user types into the tokenization page: every word of the
\* dictionary and of the stop list alone, and every sequence of up to
\* MaxWords words of a sample (surface forms, stop words, unknown words, upper
\* case, a digit, a leading separator) joined by spaces.
SurfaceForms == UNION { Range(lemmaMapping[i].forms) : i \in DOMAIN lemmaMapping }

SampleWords == { <<"t","h","e">>, <<"T","h","e">>, <<"a">>, <<"i","t","s">>,
                 <<"r","u","n","s">>, <<"r","a","n">>, <<"d","o","g","s">>,
                 <<"b","o","b","'","s">>, <<"b","o","b",RightQuote,"s">>,
                 <<"q","u","i","c","k">>,
                 <<"c","o","n","s","t","r","u","c","t","o","r">>, <<",">>,
                 <<"4","X">> }

InputTexts == SurfaceForms \cup stopWords
              \cup { Join(ws, <<" ">>) : ws \in SeqsUpTo(SampleWords, MaxWords) }

Last(seq) == seq[Len(seq)]

\* tokenizeText(): the Tokenize button, and setup().
tokenizeText ==
    /\ page = "tokenization.js"
    /\ tokens' = TokenizeOp(inputText)
    /\ vocabInfo' = VocabularyOf(tokens')
    /\ applied' = <<>>
    /\ UNCHANGED <<page, edits, canvas, inputText, bm25Vars, bowVars, tfidfVars>>

\* applyLemmatization(): the Lemmatize button.
applyLemmatization ==
    /\ page = "tokenization.js"
    /\ Len(applied) < MaxOps
    /\ tokens' = LemmatizeOp(tokens)
    /\ vocabInfo' = VocabularyOf(tokens')
    /\ applied' = Append(applied, "applyLemmatization")
    /\ UNCHANGED <<page, edits, canvas, inputText, bm25Vars, bowVars, tfidfVars>>

\* removeStopWords(): the Remove Stop Words button.
removeStopWords ==
    /\ page = "tokenization.js"
    /\ Len(applied) < MaxOps
    /\ tokens' = RemoveStopWordsOp(tokens)
    /\ vocabInfo' = VocabularyOf(tokens')
    /\ applied' = Append(applied, "removeStopWords")
    /\ UNCHANGED <<page, edits, canvas, inputText, bm25Vars, bowVars, tfidfVars>>

\* ------------------------------------------------------------------------
\* Numbers of the scoring pages
\*
\* The BM25 and TF-IDF pages take Math.log, whose Number result the language
\* leaves to the implementation; their numbers are kept exact.  A finite
\* number is a polynomial with rational coefficients in the logarithms taken:
\* its constant c and a function p from the monomials (non-empty bags of
\* logarithms) to their non-zero coefficients.  Beside them are NaN and the
\* two infinities.  Zero carries no sign: -0 === 0, and no division of these
\* pages has a divisor that can be -0.
\* ------------------------------------------------------------------------
Abs(x) == IF x < 0 THEN -x ELSE x

RECURSIVE GCD(_, _)
GCD(a, b) == IF b = 0 THEN a ELSE GCD(b, a % b)

\* The rational n/d (d # 0) in lowest terms with a positive denominator.
Rat(n, d) ==
    LET g == GCD(Abs(n), Abs(d))
        sg == IF d < 0 THEN -1 ELSE 1
    IN [n |-> sg * (n \div g), d |-> sg * (d \div g)]

RatZero == [n |-> 0, d |-> 1]
RatAdd(x, y) == IF x.d = y.d THEN Rat(x.n + y.n, x.d) ELSE Rat(x.n * y.d + y.n * x.d, x.d * y.d)
RatMul(x, y) == Rat(x.n * y.n, x.d * y.d)
RatInv(x) == Rat(x.d, x.n)
RatSign(x) == IF x.n > 0 THEN 1 ELSE IF x.n < 0 THEN -1 ELSE 0
RatLess(x, y) == x.n * y.d < y.n * x.d

\* The monomial of one logarithm, and the product of two monomials.
Mono(atom) == [a \in {atom} |-> 1]
MonoMul(m1, m2) ==
    [ a \in DOMAIN m1 \cup DOMAIN m2 |->
        (IF a \in DOMAIN m1 THEN m1[a] ELSE 0) + (IF a \in DOMAIN m2 THEN m2[a] ELSE 0) ]

\* The non-constant part of a polynomial.
NoLogs == <<>>
PolyCoef(p, m) == IF m \in DOMAIN p THEN p[m] ELSE RatZero
PolyAdd(p, q) ==
    IF p = NoLogs THEN q
    ELSE IF q = NoLogs THEN p
    ELSE LET ms == { m \in DOMAIN p \cup DOMAIN q :
                       RatAdd(PolyCoef(p, m), PolyCoef(q, m)).n # 0 }
         IN [ m \in ms |-> RatAdd(PolyCoef(p, m), PolyCoef(q, m)) ]

\* p times the rational r; p times the term r * m0.
PolyScale(p, r) ==
    IF r.n = 0 \/ p = NoLogs THEN NoLogs ELSE [ m \in DOMAIN p |-> RatMul(p[m], r) ]
PolyShift(p, r, m0) ==
    [ m \in { MonoMul(m1, m0) : m1 \in DOMAIN p } |->
        RatMul(r, p[CHOOSE m1 \in DOMAIN p : MonoMul(m1, m0) = m]) ]

RECURSIVE PolyMulFrom(_, _, _)
PolyMulFrom(p, q, ms) ==
    IF ms = {} THEN NoLogs
    ELSE LET m0 == CHOOSE m \in ms : TRUE
         IN PolyAdd(PolyShift(p, q[m0], m0), PolyMulFrom(p, q, ms \ {m0}))

PolyMul(p, q) == IF p = NoLogs \/ q = NoLogs THEN NoLogs ELSE PolyMulFrom(p, q, DOMAIN q)

\* The sign of a logarithm ln(num / (den + eps * 1e-10)), num and den
\* positive multiples of one half: 1e-10 is below every difference of the two.
AtomSign(atom) ==
    IF RatLess(atom.den, atom.num) THEN 1
    ELSE IF atom.num = atom.den /\ atom.eps = 0 THEN 0
    ELSE -1

MonoSign(m) ==
    IF Cardinality({ a \in DOMAIN m : AtomSign(a) < 0 /\ m[a] % 2 = 1 }) % 2 = 1 THEN -1 ELSE 1

\* JavaScript Numbers.
NaN == [k |-> "NaN", s |-> 0, c |-> RatZero, p |-> NoLogs]
Infinity(sign) == [k |-> "Infinity", s |-> sign, c |-> RatZero, p |-> NoLogs]
Fin(c, p) == [k |-> "finite", s |-> 0, c |-> c, p |-> p]
Num(n) == Fin([n |-> n, d |-> 1], NoLogs)
Frac(n, d) == Fin(Rat(n, d), NoLogs)

IsNaN(x) == x.k = "NaN"
IsFinite(x) == x.k = "finite"
IsRational(x) == x.k = "finite" /\ x.p = NoLogs
IsZero(x) == x.k = "finite" /\ x.c.n = 0 /\ x.p = NoLogs

\* The sign of a number all of whose terms have one sign; 2 when its terms
\* differ in sign (the exact value of the logarithms would decide).
Sign(x) ==
    IF x.k = "NaN" THEN 2
    ELSE IF x.k = "Infinity" THEN x.s
    ELSE LET sg == ({ RatSign(x.p[m]) * MonoSign(m) : m \in DOMAIN x.p } \cup {RatSign(x.c)}) \ {0}
         IN IF sg = {} THEN 0 ELSE IF sg = {1} THEN 1 ELSE IF sg = {-1} THEN -1 ELSE 2

\* x + y
JsAdd(x, y) ==
    IF x.k = "finite" /\ y.k = "finite" THEN Fin(RatAdd(x.c, y.c), PolyAdd(x.p, y.p))
    ELSE IF IsNaN(x) \/ IsNaN(y) THEN NaN
    ELSE IF x.k = "Infinity" /\ y.k = "Infinity" THEN (IF x.s = y.s THEN x ELSE NaN)
    ELSE IF x.k = "Infinity" THEN x
    ELSE y

\* x * y
JsMul(x, y) ==
    IF x.k = "finite" /\ y.k = "finite"
    THEN Fin(RatMul(x.c, y.c),
             PolyAdd(PolyAdd(PolyScale(x.p, y.c), PolyScale(y.p, x.c)), PolyMul(x.p, y.p)))
    ELSE IF IsNaN(x) \/ IsNaN(y) THEN NaN
    ELSE IF Sign(x) = 0 \/ Sign(y) = 0 THEN NaN
    ELSE Infinity(Sign(x) * Sign(y))

\* x - y
JsSub(x, y) == JsAdd(x, JsMul(Num(-1), y))

\* x / y for a divisor that holds no logarithm.
JsDiv(x, y) ==
    IF IsNaN(x) \/ IsNaN(y) THEN NaN
    ELSE IF y.k = "Infinity" THEN (IF x.k = "Infinity" THEN NaN ELSE Num(0))
    ELSE IF y.c.n = 0 THEN (IF Sign(x) = 0 THEN NaN ELSE Infinity(Sign(x)))
    ELSE IF x.k = "Infinity" THEN Infinity(x.s * RatSign(y.c))
    ELSE Fin(RatMul(x.c, RatInv(y.c)), PolyScale(x.p, RatInv(y.c)))

\* Math.log(num / (den + eps * 1e-10)) for positive num and den: +0 at 1.
MathLog(num, den, eps) ==
    LET atom == [num |-> num, den |-> den, eps |-> eps]
    IN IF AtomSign(atom) = 0 THEN Num(0) ELSE Fin(RatZero, [m \in {Mono(atom)} |-> Rat(1, 1)])

\* arr.reduce((a, b) => a + b, 0)
RECURSIVE JsSum(_)
JsSum(xs) == IF Len(xs) = 0 THEN Num(0)
             ELSE JsAdd(JsSum(SubSeq(xs, 1, Len(xs) - 1)), xs[Len(xs)])

\* ------------------------------------------------------------------------
\* parseFloat and toFixed
\* ------------------------------------------------------------------------
IsDigit(c) == c \in Range(DigitSeq)
DigitValue(c) == (CHOOSE i \in DOMAIN DigitSeq : DigitSeq[i] = c) - 1

\* The longest run of digits of str from position i on.
RECURSIVE DigitRun(_, _)
DigitRun(str, i) ==
    IF i <= Len(str) /\ IsDigit(str[i]) THEN <<str[i]>> \o DigitRun(str, i + 1) ELSE <<>>

RECURSIVE DigitsToNat(_)
DigitsToNat(ds) ==
    IF Len(ds) = 0 THEN 0
    ELSE 10 * DigitsToNat(SubSeq(ds, 1, Len(ds) - 1)) + DigitValue(ds[Len(ds)])

RECURSIVE Pow10(_)
Pow10(k) == IF k = 0 THEN 1 ELSE 10 * Pow10(k - 1)

\* parseFloat(str) for the decimal literals sign digits [. digits] and
\* . digits (the model's texts hold no exponent and no "Infinity"): the
\* longest prefix that is a literal, NaN when there is none.
ParseFloat(str) ==
    LET neg == Len(str) > 0 /\ str[1] = "-"
        start == IF Len(str) > 0 /\ str[1] \in {"-", "+"} THEN 2 ELSE 1
        int == DigitRun(str, start)
        dot == start + Len(int)
        frac == IF dot <= Len(str) /\ str[dot] = "." THEN DigitRun(str, dot + 1) ELSE <<>>
        mag == RatAdd(Rat(DigitsToNat(int), 1), Rat(DigitsToNat(frac), Pow10(Len(frac))))
    IN IF Len(int) = 0 /\ Len(frac) = 0 THEN NaN
       ELSE Fin(IF neg THEN RatMul(Rat(-1, 1), mag) ELSE mag, NoLogs)

RECURSIVE NatToDigits(_)
NatToDigits(n) ==
    IF n < 10 THEN <<DigitSeq[n + 1]>>
    ELSE Append(NatToDigits(n \div 10), DigitSeq[(n % 10) + 1])

\* x.toFixed(digits) for NaN, an infinity or a rational x, digits > 0.
ToFixed(x, digits) ==
    IF IsNaN(x) THEN <<"N","a","N">>
    ELSE IF x.k = "Infinity"
         THEN (IF x.s < 0 THEN <<"-">> ELSE <<>>) \o <<"I","n","f","i","n","i","t","y">>
    ELSE LET r == x.c
             a == Rat(Abs(r.n), r.d)
             \* the integer n with n / 10^digits nearest to |x|, the larger of two
             n == (2 * a.n * Pow10(digits) + a.d) \div (2 * a.d)
             ds == NatToDigits(n)
             padded == IF Len(ds) <= digits
                       THEN [i \in 1..(digits + 1 - Len(ds)) |-> "0"] \o ds ELSE ds
             cut == Len(padded) - digits
         IN (IF r.n < 0 THEN <<"-">> ELSE <<>>)
            \o SubSeq(padded, 1, cut) \o <<".">> \o SubSeq(padded, cut + 1, Len(padded))

\* ------------------------------------------------------------------------
\* The BM25 pages: bm25.js and unnamed/part_000 (the same code but for the
\* IDF formula and the canvas width)
\* ------------------------------------------------------------------------
\* textToTokens(str)
textToTokens(str) == FilterNonEmpty(Split(ToLowerCase(str)))

\* doc.filter((t) => t === term).length
Count(doc, term) == Len(SelectSeq(doc, LAMBDA t : t = term))

\* A variant of DocFrequency that counts every occurrence.
RECURSIVE DocFrequencyOfOccurrences(_, _)
DocFrequencyOfOccurrences(docs, term) ==
    IF Len(docs) = 0 THEN 0
    ELSE Cardinality({ k \in DOMAIN docs[1] : docs[1][k] = term })
         + DocFrequencyOfOccurrences(Tail(docs), term)

\* docs.reduce((count, doc) => (doc.includes(term) ? count + 1 : count), 0)
DocFrequency(docs, term) == Cardinality({ i \in DOMAIN docs : term \in Range(docs[i]) })

\* A variant of IdfSmoothed with the numerator N - nt + 0.5.
IdfSmoothedLessNumerator(N, nt) == MathLog(Rat(2 * (N - nt) + 1, 2), Rat(2 * nt + 1, 2), 0)

\* bm25.js: Math.log((N + 0.5) / (nt + 0.5))
IdfSmoothed(N, nt) == MathLog(Rat(2 * N + 1, 2), Rat(2 * nt + 1, 2), 0)

\* A variant of IdfClassic whose numerator does not subtract nt.
IdfClassicFullNumerator(N, nt) == MathLog(Rat(2 * N + 1, 2), Rat(2 * nt + 1, 2), 1)

\* unnamed/part_000: Math.log((N - nt + 0.5) / (nt + 0.5 + 1e-10))
IdfClassic(N, nt) == MathLog(Rat(2 * (N - nt) + 1, 2), Rat(2 * nt + 1, 2), 1)

Idf(script, N, nt) == IF script = "bm25.js" THEN IdfSmoothed(N, nt) ELSE IdfClassic(N, nt)

\* A variant of TermScore with the length normalisation outside k1.
TermScoreLengthOutsideK1(f, k1, b, idfT, docLength, avgLength) ==
    LET numerator == JsMul(Num(f), JsAdd(k1, Num(1)))
        denominator ==
            JsMul(JsAdd(Num(f), k1),
                  JsAdd(JsSub(Num(1), b), JsMul(b, JsDiv(Num(docLength), avgLength))))
    IN JsMul(idfT, JsDiv(numerator, denominator))

\* termScore of a term that occurs f times in a document.
TermScore(f, k1, b, idfT, docLength, avgLength) ==
    LET numerator == JsMul(Num(f), JsAdd(k1, Num(1)))
        denominator ==
            JsAdd(Num(f),
                  JsMul(k1, JsAdd(JsSub(Num(1), b),
                                  JsMul(b, JsDiv(Num(docLength), avgLength)))))
    IN JsMul(idfT, JsDiv(numerator, denominator))

\* A variant of VocabTerm that evaluates the formula for every term.
VocabTermNoShortCircuit(acc, term, f, termScore) ==
    [score |-> JsAdd(acc.score, termScore), contribs |-> (term :> termScore) @@ acc.contribs]

\* The callback of vocab.forEach for one term that occurs f times: a term
\* with f === 0 stores 0 and returns before score += termScore.
VocabTerm(acc, term, f, termScore) ==
    IF f = 0
    THEN [score |-> acc.score, contribs |-> (term :> Num(0)) @@ acc.contribs]
    ELSE [score |-> JsAdd(acc.score, termScore),
          contribs |-> (term :> termScore) @@ acc.contribs]

\* vocab.forEach over the first i terms for one document: score and contribs.
RECURSIVE VocabForEach(_, _, _, _, _, _, _, _)
VocabForEach(doc, vocab, i, idf, k1, b, docLength, avgLength) ==
    IF i = 0 THEN [score |-> Num(0), contribs |-> <<>>]
    ELSE LET f == Count(doc, vocab[i])
         IN VocabTerm(VocabForEach(doc, vocab, i - 1, idf, k1, b, docLength, avgLength),
                      vocab[i], f,
                      TermScore(f, k1, b, idf[vocab[i]], docLength, avgLength))

\* docs.forEach over the first idx documents: scores and termContribs.
RECURSIVE DocsForEach(_, _, _, _, _, _, _, _)
DocsForEach(docs, idx, vocab, idf, k1, b, docLengths, avgLength) ==
    IF idx = 0 THEN [scores |-> <<>>, termContribs |-> <<>>]
    ELSE LET prev == DocsForEach(docs, idx - 1, vocab, idf, k1, b, docLengths, avgLength)
             this == VocabForEach(docs[idx], vocab, Len(vocab), idf, k1, b,
                                  docLengths[idx], avgLength)
         IN [scores |-> Append(prev.scores, this.score),
             termContribs |-> Append(prev.termContribs, this.contribs)]

\* The module variables after computeBm25() on the page's fields.
ComputeBm25(script, dom) ==
    LET qTokens == textToTokens(dom.queryText)
        docs == << textToTokens(dom.d1Text), textToTokens(dom.d2Text),
                   textToTokens(dom.d3Text) >>
        N == Len(docs)
        vocab == Distinct(qTokens)
        df == [ term \in Range(vocab) |-> DocFrequency(docs, term) ]
        idf == [ term \in Range(vocab) |-> Idf(script, N, df[term]) ]
        docLengths == [ i \in DOMAIN docs |-> Len(docs[i]) ]
        avgDocLength == JsDiv(JsSum([ i \in DOMAIN docs |-> Num(docLengths[i]) ]), Num(N))
        k1 == ParseFloat(dom.k1)
        b == ParseFloat(dom.b)
        each == DocsForEach(docs, Len(docs), vocab, idf, k1, b, docLengths, avgDocLength)
    IN [ docs |-> docs, vocab |-> vocab, idf |-> idf, docLengths |-> docLengths,
         avgDocLength |-> avgDocLength, scores |-> each.scores,
         termContribs |-> each.termContribs ]

\* The fields after updateScoreDisplay(): #scores holds one line per score
\* (the number the page prints with toFixed(3); its digits are not modelled
\* for a number that holds a logarithm), #k1Val and #bVal the parameters.
ScoreLine(score) == IF IsFinite(score) /\ ~IsRational(score) THEN score ELSE ToFixed(score, 3)

UpdateScoreDisplay(dom, state) ==
    [ dom EXCEPT !.scores = [ i \in DOMAIN state.scores |-> ScoreLine(state.scores[i]) ],
                 !.k1Val = ToFixed(ParseFloat(dom.k1), 2),
                 !.bVal = ToFixed(ParseFloat(dom.b), 2) ]

\* What the fields of a BM25 page hold: the query and the first document any
\* text of up to MaxBm25Words words, the other two documents one of a few texts.
Bm25Texts == { Join(ws, <<" ">>) : ws \in SeqsUpTo({ <<"a">>, <<"b">> }, MaxBm25Words) }
Bm25SecondTexts == { <<>>, <<"a">>, <<"a", " ", "B">> }
Bm25ThirdTexts == { <<>>, <<"a">> }
K1Values == { <<"-","1">>, <<"0">>, <<"1",".","5">>, <<"k">> }
BValues == { <<"0">>, <<"0",".","7","5">>, <<"b">> }

\* A variant of computeBm25 without the resets of scores and termContribs
\* before the loop: the new entries follow those of the last computation.
computeBm25KeepScores(dom) ==
    /\ page \in {"bm25.js", "part_000"}
    /\ bm25' = LET state == ComputeBm25(page, dom)
               IN [ state EXCEPT !.scores = bm25.scores \o state.scores,
                                 !.termContribs = bm25.termContribs \o state.termContribs ]
    /\ bm25Dom' = UpdateScoreDisplay(dom, bm25')
    /\ UNCHANGED <<page, edits, canvas, tokVars, bowVars, tfidfVars>>

\* computeBm25() on the fields dom.
computeBm25(dom) ==
    /\ page \in {"bm25.js", "part_000"}
    /\ bm25' = ComputeBm25(page, dom)
    /\ bm25Dom' = UpdateScoreDisplay(dom, bm25')
    /\ UNCHANGED <<page, edits, canvas, tokVars, bowVars, tfidfVars>>

\* The Compute button, and setup().
Bm25Click == computeBm25(bm25Dom)

\* The k1 slider moves to another value: its input listener recomputes.
Bm25SlideK1 == \E v \in K1Values : v # bm25Dom.k1 /\ computeBm25([bm25Dom EXCEPT !.k1 = v])

\* The b slider moves to another value.
Bm25SlideB == \E v \in BValues : v # bm25Dom.b /\ computeBm25([bm25Dom EXCEPT !.b = v])

\* ------------------------------------------------------------------------
\* Numbers of the bag-of-words page
\*
\* The page takes Math.sqrt, * and / of Numbers; each gives the binary64
\* value nearest to the exact result (ties to even).  A finite Number that
\* is not negative is m * 2^e with 2^52 <= m < 2^53, or zero (m empty); m is
\* a natural number written in limbs of LimbBits bits, the lowest first.
\*
\* With(e, F) is F(e) with e evaluated once, whatever the number of uses of
\* it in F.
\* ------------------------------------------------------------------------
With(e, F(_)) == CHOOSE r \in { F(v) : v \in {e} } : TRUE
With2(e1, e2, F(_, _)) == CHOOSE r \in { F(v, w) : v \in {e1}, w \in {e2} } : TRUE
With3(e1, e2, e3, F(_, _, _)) ==
    CHOOSE r \in { F(u, v, w) : u \in {e1}, v \in {e2}, w \in {e3} } : TRUE

LimbBits == 14
Base == 16384
Precision == 53

Pow2(k) == <<1, 2, 4, 8, 16, 32, 64, 128, 256, 512, 1024, 2048, 4096, 8192, 16384>>[k + 1]

BitLenSmall(n) == With(n, LAMBDA v : Cardinality({ k \in 0..LimbBits : Pow2(k) <= v }))

MaxOf(S) == With(S, LAMBDA T : CHOOSE i \in T : \A j \in T : j <= i)

\* the sequence that is the function f on 1..n
Limbs(f) == With(f, LAMBDA g : SubSeq(g, 1, Len(g)))

BNorm(a) ==
    With(Limbs(a), LAMBDA x : SubSeq(x, 1, MaxOf({0} \cup { i \in DOMAIN x : x[i] # 0 })))

Limb(a, i) == IF i <= Len(a) THEN a[i] ELSE 0

BFromNat(n) ==
    With(n, LAMBDA v : BNorm(<<v % Base, (v \div Base) % Base, v \div (Base * Base)>>))

BCmp(a, b) ==
    With2(a, b, LAMBDA x, y :
        IF Len(x) # Len(y) THEN (IF Len(x) < Len(y) THEN -1 ELSE 1)
        ELSE With({ i \in DOMAIN x : x[i] # y[i] }, LAMBDA d :
                 IF d = {} THEN 0
                 ELSE With(MaxOf(d), LAMBDA t : IF x[t] < y[t] THEN -1 ELSE 1)))

\* the carry into limb i of the limb sums s, each below 2 * Base
Carry(s, i) ==
    IF \E j \in 1..(i - 1) : s[j] >= Base /\ \A k \in (j + 1)..(i - 1) : s[k] >= Base - 1
    THEN 1 ELSE 0

BAdd(a, b) ==
    With2(a, b, LAMBDA x, y :
    With(IF Len(x) < Len(y) THEN Len(y) ELSE Len(x), LAMBDA n :
    With(Limbs([ i \in 1..n |-> Limb(x, i) + Limb(y, i) ]), LAMBDA s :
    BNorm([ i \in 1..(n + 1) |->
              IF i > n THEN Carry(s, i) ELSE (s[i] + Carry(s, i)) % Base ]))))

\* a - b for a >= b: limb i borrows when a lower limb j of a is below b's
\* and the limbs between are not above b's
BSub(a, b) ==
    With2(a, b, LAMBDA x, y :
        BNorm([ i \in DOMAIN x |->
                  (x[i] - Limb(y, i) + Base
                   - (IF \E j \in 1..(i - 1) :
                            /\ x[j] < Limb(y, j)
                            /\ \A k \in (j + 1)..(i - 1) : x[k] <= Limb(y, k)
                      THEN 1 ELSE 0)) % Base ]))

\* a * Base^n
BShiftLimbs(a, n) == With(a, LAMBDA x : IF Len(x) = 0 THEN <<>> ELSE [i \in 1..n |-> 0] \o x)

\* the sum of x[c + 1 - k] * y[k] over the first j limbs of y
RECURSIVE ColumnSum(_, _, _, _)
ColumnSum(x, y, c, j) ==
    IF j = 0 THEN 0
    ELSE ColumnSum(x, y, c, j - 1) + (IF c + 1 - j \in DOMAIN x THEN x[c + 1 - j] * y[j] ELSE 0)

\* a * b: the columns c[i] < Base^3 of the limb products, then their carries
BMul(a, b) ==
    With2(a, b, LAMBDA x, y :
    With(Limbs([ i \in 1..(Len(x) + Len(y)) |-> ColumnSum(x, y, i, Len(y)) ]), LAMBDA c :
    BAdd(BAdd(BNorm([ i \in DOMAIN c |-> c[i] % Base ]),
              BShiftLimbs(BNorm([ i \in DOMAIN c |-> (c[i] \div Base) % Base ]), 1)),
         BShiftLimbs(BNorm([ i \in DOMAIN c |-> c[i] \div (Base * Base) ]), 2))))

\* a * 2^k and floor(a / 2^k)
BShl(a, k) ==
    With(k, LAMBDA n : BShiftLimbs(BMul(a, BFromNat(Pow2(n % LimbBits))), n \div LimbBits))

BShr(a, k) ==
    With2(a, k, LAMBDA x, n :
    With(SubSeq(x, (n \div LimbBits) + 1, Len(x)), LAMBDA b :
    BNorm([ i \in DOMAIN b |-> (b[i] \div Pow2(n % LimbBits))
                               + (Limb(b, i + 1) % Pow2(n % LimbBits))
                                 * Pow2(LimbBits - (n % LimbBits)) ])))

BBitLen(a) ==
    With(a, LAMBDA x :
        IF Len(x) = 0 THEN 0 ELSE LimbBits * (Len(x) - 1) + BitLenSmall(x[Len(x)]))

\* One digit of a long division: floor(r / den) < Base and the remainder.
\* The estimate q0 from the top limbs is the digit, or one or two more, for
\* a den whose top limb is at least Base / 2.
DivStep(r, den) ==
    With2(r, den, LAMBDA x, d :
    With((Limb(x, Len(d) + 1) * Base + Limb(x, Len(d))) \div d[Len(d)], LAMBDA est :
    With(IF est > Base - 1 THEN Base - 1 ELSE est, LAMBDA q0 :
    With(BMul(d, BFromNat(q0)), LAMBDA p0 :
    IF BCmp(p0, x) <= 0 THEN [q |-> q0, r |-> BSub(x, p0)]
    ELSE With(BSub(p0, d), LAMBDA p1 :
             IF BCmp(p1, x) <= 0 THEN [q |-> q0 - 1, r |-> BSub(x, p1)]
             ELSE [q |-> q0 - 2, r |-> BSub(x, BSub(p1, d))])))))

\* Long division of num by den: st holds the quotient q and the remainder r
\* of the limbs above i, and i, the next limb of num to bring down.
RECURSIVE DivFrom(_, _, _)
DivFrom(num, den, st) ==
    With(st, LAMBDA s :
        IF s.i = 0 THEN s
        ELSE With(DivStep(BNorm(<<num[s.i]>> \o s.r), den), LAMBDA step :
                 DivFrom(num, den, [q |-> BNorm(<<step.q>> \o s.q), r |-> step.r,
                                    i |-> s.i - 1])))

\* floor(num / den) and num mod den, den > 0
BDivMod(num, den) ==
    With2(num, den, LAMBDA a, b :
    With(LimbBits - BitLenSmall(b[Len(b)]), LAMBDA s :
    With2(BShl(a, s), BShl(b, s), LAMBDA n, d :
    With(IF Len(n) < Len(d) THEN Len(n) ELSE Len(d) - 1, LAMBDA top :
    With(DivFrom(n, d, [q |-> <<>>, r |-> BNorm(SubSeq(n, Len(n) - top + 1, Len(n))),
                        i |-> Len(n) - top]), LAMBDA res :
    [q |-> res.q, r |-> BShr(res.r, s)])))))

FZero == [k |-> "finite", m |-> <<>>, e |-> 0]
FNaN == [k |-> "NaN", m |-> <<>>, e |-> 0]
FInfinity == [k |-> "Infinity", m |-> <<>>, e |-> 0]
FIsZero(a) == With(a, LAMBDA x : x.k = "finite" /\ Len(x.m) = 0)

\* a * 2^k for k > 0, else a
ScaleUp(a, k) == With(k, LAMBDA n : IF n > 0 THEN BShl(a, n) ELSE a)

\* The Number nearest to (A / D) * 2^x, ties to even (A, D > 0): with e the
\* exponent that gives floor(A / (D * 2^e)) Precision bits.
RoundRatio(A, D, x) ==
    With2(A, D, LAMBDA a, d :
    With(BBitLen(a) - BBitLen(d) - Precision, LAMBDA e0 :
    With(IF BCmp(ScaleUp(a, -e0), BShl(ScaleUp(d, e0), Precision)) >= 0
         THEN e0 + 1 ELSE e0, LAMBDA e :
    With(ScaleUp(d, e), LAMBDA den :
    With(BDivMod(ScaleUp(a, -e), den), LAMBDA qr :
    With(BCmp(BAdd(qr.r, qr.r), den), LAMBDA twice :
    With(IF twice > 0 \/ (twice = 0 /\ Limb(qr.q, 1) % 2 = 1) THEN BAdd(qr.q, <<1>>) ELSE qr.q,
         LAMBDA m :
    IF BBitLen(m) > Precision THEN [k |-> "finite", m |-> BShr(m, 1), e |-> e + x + 1]
    ELSE [k |-> "finite", m |-> m, e |-> e + x])))))))

\* The Number that is the natural number n < Base^3 (exact).
FromNat(n) ==
    With(BFromNat(n), LAMBDA a :
        IF Len(a) = 0 THEN FZero
        ELSE [k |-> "finite", m |-> BShl(a, Precision - BBitLen(a)),
              e |-> BBitLen(a) - Precision])

\* a * b and a / b for Numbers that are not negative
FMul(a, b) ==
    With2(a, b, LAMBDA x, y :
        IF x.k = "NaN" \/ y.k = "NaN" THEN FNaN
        ELSE IF x.k = "Infinity" \/ y.k = "Infinity"
             THEN (IF FIsZero(x) \/ FIsZero(y) THEN FNaN ELSE FInfinity)
        ELSE IF FIsZero(x) \/ FIsZero(y) THEN FZero
        ELSE RoundRatio(BMul(x.m, y.m), <<1>>, x.e + y.e))

FDiv(a, b) ==
    With2(a, b, LAMBDA x, y :
        IF x.k = "NaN" \/ y.k = "NaN" THEN FNaN
        ELSE IF x.k = "Infinity" THEN (IF y.k = "Infinity" THEN FNaN ELSE FInfinity)
        ELSE IF y.k = "Infinity" THEN FZero
        ELSE IF FIsZero(y) THEN (IF FIsZero(x) THEN FNaN ELSE FInfinity)
        ELSE IF FIsZero(x) THEN FZero
        ELSE RoundRatio(x.m, y.m, x.e - y.e))

\* floor(sqrt(N)) by Newton's iteration from an r above the root
RECURSIVE BSqrtFrom(_, _)
BSqrtFrom(N, r) ==
    With(r, LAMBDA x :
    With(BShr(BAdd(x, BDivMod(N, x).q), 1), LAMBDA next :
    IF BCmp(next, x) >= 0 THEN x ELSE BSqrtFrom(N, next)))

\* The Number nearest to the square root of the natural number n < Base:
\* with s = floor(sqrt(n * 4^k)) of Precision bits, s + 1 when the root is
\* above s + 1/2 (it is never s + 1/2).
FSqrt(n) ==
    With(n, LAMBDA v :
        IF v = 0 THEN FZero
        ELSE With(Precision - ((BitLenSmall(v) + 1) \div 2), LAMBDA k :
             With(BShl(BFromNat(v), 2 * k), LAMBDA N :
             With(BSqrtFrom(N, BShl(<<1>>, Precision)), LAMBDA s :
             [k |-> "finite",
              m |-> IF BCmp(N, BAdd(BMul(s, s), s)) > 0 THEN BAdd(s, <<1>>) ELSE s,
              e |-> -k]))))

\* Math.sqrt(n); the roots of the sums of squares that the page's vectors
\* can have, 0 first, are computed once.
SqrtTable == Limbs([ i \in 1..(MaxBowWords * MaxBowWords + 1) |-> FSqrt(i - 1) ])

MathSqrt(n) == With(n, LAMBDA v : IF v + 1 \in DOMAIN SqrtTable THEN SqrtTable[v + 1] ELSE FSqrt(v))

\* -1, 0, 1 as a < b, a = b, a > b, for finite Numbers that are not negative
FCmp(a, b) ==
    With2(a, b, LAMBDA x, y :
        IF Len(x.m) = 0 \/ Len(y.m) = 0
        THEN (IF Len(x.m) = Len(y.m) THEN 0 ELSE IF Len(x.m) = 0 THEN -1 ELSE 1)
        ELSE IF x.e # y.e THEN (IF x.e < y.e THEN -1 ELSE 1)
        ELSE BCmp(x.m, y.m))

\* x.toFixed(digits) for a Number x below 10^21 that is not negative: the
\* integer n with n / 10^digits nearest to x, the larger of two.
FToFixed(x, digits) ==
    With(x, LAMBDA v :
        IF v.k = "NaN" THEN <<"N", "a", "N">>
        ELSE IF v.k = "Infinity" THEN <<"I", "n", "f", "i", "n", "i", "t", "y">>
        ELSE With2(IF v.e > 0 THEN v.e ELSE 0, IF v.e < 0 THEN -v.e ELSE 0, LAMBDA up, down :
             With(BShr(BAdd(BShl(BMul(v.m, BFromNat(2 * Pow10(digits))), up),
                            BShl(<<1>>, down)), down + 1), LAMBDA n :
             ToFixed(Frac(Limb(n, 1) + Base * Limb(n, 2) + Base * Base * Limb(n, 3),
                          Pow10(digits)), digits))))

\* ------------------------------------------------------------------------
\* bag_of_words.js
\* ------------------------------------------------------------------------
\* vec.reduce((sum, x, i) => sum + x * other[i], 0) over the first i entries;
\* the counts and their sums are integers, which Numbers hold exactly.
RECURSIVE SumProducts(_, _, _)
SumProducts(u, v, i) == IF i = 0 THEN 0 ELSE SumProducts(u, v, i - 1) + u[i] * v[i]

\* mag(vec) = Math.sqrt(vec.reduce((sum, x) => sum + x * x, 0))
Mag(vec) == With(vec, LAMBDA v : MathSqrt(SumProducts(v, v, Len(v))))

\* vocab.map(term => tokens.filter(t => t === term).length)
CountVector(toks, vocab) ==
    With2(toks, vocab, LAMBDA ts, vs : Limbs([ i \in DOMAIN vs |-> Count(ts, vs[i]) ]))

\* A variant of Cosine that always divides.
CosineNoGuard(dot, qMag, dMag) == FDiv(dot, FMul(qMag, dMag))

\* qMag === 0 || dMag === 0 ? 0 : dot / (qMag * dMag)
Cosine(dot, qMag, dMag) ==
    With3(dot, qMag, dMag, LAMBDA d, q, m :
        IF FIsZero(q) \/ FIsZero(m) THEN FZero ELSE FDiv(d, FMul(q, m)))

\* The module variables after buildVectors() on the page's fields.
BuildVectors(dom) ==
    With3(textToTokens(dom.queryText), textToTokens(dom.doc1Text),
          textToTokens(dom.doc2Text), LAMBDA qTokens, d1Tokens, d2Tokens :
    With(Distinct(qTokens \o d1Tokens \o d2Tokens), LAMBDA vocabOf :
    With3(CountVector(qTokens, vocabOf), CountVector(d1Tokens, vocabOf),
          CountVector(d2Tokens, vocabOf), LAMBDA qVec, d1Vec, d2Vec :
    With2(FromNat(SumProducts(qVec, d1Vec, Len(qVec))),
          FromNat(SumProducts(qVec, d2Vec, Len(qVec))), LAMBDA dot1, dot2 :
    With3(Mag(qVec), Mag(d1Vec), Mag(d2Vec), LAMBDA qMag, d1Mag, d2Mag :
    [ vocab |-> vocabOf, qVec |-> qVec, d1Vec |-> d1Vec, d2Vec |-> d2Vec,
      scores |-> [ doc1 |-> [dot |-> dot1, cos |-> Cosine(dot1, qMag, d1Mag)],
                   doc2 |-> [dot |-> dot2, cos |-> Cosine(dot2, qMag, d2Mag)] ] ])))))

\* The #scores field after updateScoreDisplay(): the four numbers it prints.
UpdateBowDisplay(dom, state) ==
    [ dom EXCEPT !.scores = << FToFixed(state.scores.doc1.dot, 2),
                               FToFixed(state.scores.doc1.cos, 2),
                               FToFixed(state.scores.doc2.dot, 2),
                               FToFixed(state.scores.doc2.cos, 2) >> ]

\* What the fields of the page hold: the query and the first document any
\* text of up to MaxBowWords words, or punctuation only for the query.
BowTexts == { Join(ws, <<" ">>) : ws \in SeqsUpTo({ <<"a">>, <<"b">>, <<"c">> }, MaxBowWords) }
BowFields(q, d1, d2) == [ queryText |-> q, doc1Text |-> d1, doc2Text |-> d2, scores |-> <<>> ]
BowFieldValues ==
    { BowFields(q, d1, <<"A", ",", " ", "b">>) : q \in BowTexts \cup { <<",", " ">> },
                                                 d1 \in BowTexts }

\* buildVectors(): the Compute button, and setup().
buildVectors ==
    /\ page = "bag_of_words.js"
    /\ bow' = BuildVectors(bowDom)
    /\ bowDom' = UpdateBowDisplay(bowDom, bow')
    /\ UNCHANGED <<page, edits, canvas, tokVars, bm25Vars, tfidfVars>>

\* ------------------------------------------------------------------------
\* unnamed/part_001: the TF-IDF page.  Its numbers hold logarithms and are
\* kept exact, as those of the BM25 pages; the square root of a number that
\* is not zero, and a quotient by square roots, are kept as written.
\* ------------------------------------------------------------------------
\* Math.log((N + 1) / (n_t + 1))
TfIdfIdf(N, nt) == MathLog(Rat(N + 1, 1), Rat(nt + 1, 1), 0)

\* tokens.length > 0 ? count / tokens.length : 0
Tf(toks, term) == IF Len(toks) > 0 THEN Frac(Count(toks, term), Len(toks)) ELSE Num(0)

\* vec.reduce((sum, v, i) => sum + v * other[i], 0)
DotOf(u, v) == JsSum([ i \in DOMAIN u |-> JsMul(u[i], v[i]) ])

\* vectorMagnitude(vec) = Math.sqrt(sum of squares): 0 exactly for 0
vectorMagnitude(vec) ==
    IF IsZero(DotOf(vec, vec)) THEN Num(0) ELSE [k |-> "sqrt", of |-> DotOf(vec, vec)]

\* qMag === 0 || dMag === 0 ? 0 : dot / (qMag * dMag)
TfIdfCosine(dot, qMag, dMag) ==
    IF IsZero(qMag) \/ IsZero(dMag) THEN Num(0)
    ELSE [k |-> "quotient", dot |-> dot, qMag |-> qMag, dMag |-> dMag]

\* The module variables after computeTfIdf() on the page's fields.
ComputeTfIdf(dom) ==
    LET queryTokens == textToTokens(dom.queryText)
        docs == << textToTokens(dom.d1Text), textToTokens(dom.d2Text),
                   textToTokens(dom.d3Text) >>
        vocab == Distinct(queryTokens \o docs[1] \o docs[2] \o docs[3])
        N == Len(docs)
        idf == Limbs([ i \in DOMAIN vocab |-> TfIdfIdf(N, DocFrequency(docs, vocab[i])) ])
        queryTf == Limbs([ i \in DOMAIN vocab |-> Tf(queryTokens, vocab[i]) ])
        docsTf == Limbs([ d \in DOMAIN docs |->
                            Limbs([ i \in DOMAIN vocab |-> Tf(docs[d], vocab[i]) ]) ])
        queryTfidf == Limbs([ i \in DOMAIN vocab |-> JsMul(queryTf[i], idf[i]) ])
        docsTfidf == Limbs([ d \in DOMAIN docs |->
                               Limbs([ i \in DOMAIN vocab |-> JsMul(docsTf[d][i], idf[i]) ]) ])
        qMag == vectorMagnitude(queryTfidf)
    IN [ vocab |-> vocab, idf |-> idf, queryTf |-> queryTf, docsTf |-> docsTf,
         docsTfidf |-> docsTfidf, queryTfidf |-> queryTfidf,
         scores |-> [ d \in DOMAIN docs |->
                        [ dot |-> DotOf(docsTfidf[d], queryTfidf),
                          cos |-> TfIdfCosine(DotOf(docsTfidf[d], queryTfidf), qMag,
                                              vectorMagnitude(docsTfidf[d])) ] ] ]

\* The #scores field after updateScoreDisplay(): per document the two
\* numbers it prints with toFixed(3) (the digits of a number that holds a
\* logarithm are not modelled).
TfIdfLine(x) == IF IsRational(x) THEN ToFixed(x, 3) ELSE x

UpdateTfIdfDisplay(dom, state) ==
    [ dom EXCEPT !.scores = [ d \in DOMAIN state.scores |->
                                [ dot |-> TfIdfLine(state.scores[d].dot),
                                  cos |-> TfIdfLine(state.scores[d].cos) ] ] ]

\* What the fields of the page hold.
TfIdfTexts == { Join(ws, <<" ">>) : ws \in SeqsUpTo({ <<"a">>, <<"b">> }, MaxTfIdfWords) }
TfIdfFields(q, d1, d2, d3) ==
    [ queryText |-> q, d1Text |-> d1, d2Text |-> d2, d3Text |-> d3, scores |-> <<>> ]
TfIdfFieldValues ==
    { TfIdfFields(q, d1, d2, d3) : q \in TfIdfTexts \cup { <<",", " ">> }, d1 \in TfIdfTexts,
                                   d2 \in { <<>>, <<"A">> }, d3 \in { <<>>, <<"a", ",", "b">> } }

\* A variant of computeTfIdf that stops after the assignment of vocab: the
\* vectors and the display are those of the computation before.
computeTfIdfVocabOnly ==
    /\ page = "part_001"
    /\ tfidf' = [ tfidf EXCEPT !.vocab = ComputeTfIdf(tfidfDom).vocab ]
    /\ UNCHANGED <<page, edits, canvas, tokVars, bm25Vars, bowVars, tfidfDom>>

\* computeTfIdf(): the Compute button, and setup().
computeTfIdf ==
    /\ page = "part_001"
    /\ tfidf' = ComputeTfIdf(tfidfDom)
    /\ tfidfDom' = UpdateTfIdfDisplay(tfidfDom, tfidf')
    /\ UNCHANGED <<page, edits, canvas, tokVars, bm25Vars, bowVars>>

\* ------------------------------------------------------------------------
\* Specifications.  One page is open; the variables of every script start
\* with the values it declares.  The fields of the open page start with any
\* text of the bounded sets, those of the other pages stay empty (the pages'
\* HTML is not part of the sources).
\* ------------------------------------------------------------------------
TokStart ==
    /\ tokens = <<>>
    /\ vocabInfo = <<>>
    /\ applied = <<"load">>

Bm25Start ==
    bm25 = [ docs |-> <<>>, vocab |-> <<>>, idf |-> <<>>, docLengths |-> <<>>,
             avgDocLength |-> Num(0), scores |-> <<>>, termContribs |-> <<>> ]

BowStart ==
    bow = [ vocab |-> <<>>, qVec |-> <<>>, d1Vec |-> <<>>, d2Vec |-> <<>>,
            scores |-> [ doc1 |-> [dot |-> FZero, cos |-> FZero],
                         doc2 |-> [dot |-> FZero, cos |-> FZero] ] ]

TfIdfStart ==
    tfidf = [ vocab |-> <<>>, idf |-> <<>>, queryTf |-> <<>>, docsTf |-> <<>>,
              docsTfidf |-> <<>>, queryTfidf |-> <<>>, scores |-> <<>> ]

Bm25Fields(q, d1, d2, d3, k, bb) ==
    [ queryText |-> q, d1Text |-> d1, d2Text |-> d2, d3Text |-> d3,
      k1 |-> k, b |-> bb, scores |-> <<>>, k1Val |-> <<>>, bVal |-> <<>> ]

Bm25FieldValues ==
    { Bm25Fields(q, d1, d2, d3, k, bb) :
        q \in Bm25Texts \cup { <<",", " ">> }, d1 \in Bm25Texts, d2 \in Bm25SecondTexts,
        d3 \in Bm25ThirdTexts, k \in K1Values, bb \in BValues }

\* The start with one of the pages ps open.
PageInit(ps) ==
    /\ page \in ps
    /\ inputText \in IF page = "tokenization.js" THEN InputTexts ELSE { <<>> }
    /\ bm25Dom \in IF page \in {"bm25.js", "part_000"} THEN Bm25FieldValues
                   ELSE { Bm25Fields(<<>>, <<>>, <<>>, <<>>, <<>>, <<>>) }
    /\ bowDom \in IF page = "bag_of_words.js" THEN BowFieldValues
                  ELSE { BowFields(<<>>, <<>>, <<>>) }
    /\ tfidfDom \in IF page = "part_001" THEN TfIdfFieldValues
                    ELSE { TfIdfFields(<<>>, <<>>, <<>>, <<>>) }
    /\ TokStart /\ Bm25Start /\ BowStart /\ TfIdfStart
    /\ edits = 0
    /\ canvas = <<>>

TokInit == PageInit({"tokenization.js"})

Bm25Init == PageInit({"bm25.js", "part_000"})

TokNext == tokenizeText \/ applyLemmatization \/ removeStopWords

Bm25Next == Bm25Click \/ Bm25SlideK1 \/ Bm25SlideB

Init == PageInit({"tokenization.js", "bm25.js", "part_000", "bag_of_words.js", "part_001"})

Next == TokNext \/ Bm25Next \/ buildVectors \/ computeTfIdf

SpecTok == TokInit /\ [][TokNext]_vars

SpecBm25 == Bm25Init /\ [][Bm25Next]_vars

Spec == Init /\ [][Next]_vars

\* ------------------------------------------------------------------------
\* The live page: between two handlers the user edits a text field, and p5
\* calls draw() once per frame.  The browser runs one handler or frame at a
\* time, each to its end, so each is one step; both start after setup() has
\* run the first computation.
\* ------------------------------------------------------------------------
\* The texts a user types into a field of the live page.
EditTexts == { <<>>, <<"a">>, <<"A", ",", " ", "d","o","g","s">> }

\* The user replaces the text of one field of the open page; no listener of
\* the scripts runs on it, the next computation reads the new value.
editField ==
    /\ edits < MaxEdits
    /\ edits' = edits + 1
    /\ \E t \in EditTexts :
          \/ /\ page = "tokenization.js" /\ applied # <<"load">>
             /\ t # inputText
             /\ inputText' = t
             /\ UNCHANGED <<bm25Dom, bowDom, tfidfDom>>
          \/ /\ page \in {"bm25.js", "part_000"} /\ bm25Dom.scores # <<>>
             /\ \E f \in {"queryText", "d1Text", "d2Text", "d3Text"} :
                   t # bm25Dom[f] /\ bm25Dom' = [bm25Dom EXCEPT ![f] = t]
             /\ UNCHANGED <<inputText, bowDom, tfidfDom>>
          \/ /\ page = "bag_of_words.js" /\ bowDom.scores # <<>>
             /\ \E f \in {"queryText", "doc1Text", "doc2Text"} :
                   t # bowDom[f] /\ bowDom' = [bowDom EXCEPT ![f] = t]
             /\ UNCHANGED <<inputText, bm25Dom, tfidfDom>>
          \/ /\ page = "part_001" /\ tfidfDom.scores # <<>>
             /\ \E f \in {"queryText", "d1Text", "d2Text", "d3Text"} :
                   t # tfidfDom[f] /\ tfidfDom' = [tfidfDom EXCEPT ![f] = t]
             /\ UNCHANGED <<inputText, bm25Dom, bowDom>>
    /\ UNCHANGED <<page, canvas, tokens, vocabInfo, applied, bm25, bow, tfidf>>

\* draw(): one frame.  The canvas holds what the frame painted from the
\* module variables: a bubble per token that is not removed (green for a
\* lemma), a bar per score (part_000 stacks the contributions of
\* termContribs[i] inside bar i), or per vocabulary term the entries of the
\* vectors at its index (a read is the sequence of the one value read, and
\* empty where the index is past the end of the array and reads undefined);
\* Object.keys(undefined) in part_000 throws after the bars are painted (the
\* canvas then holds a second entry, the error).
draw ==
    LET At(seq, i) == IF i \in DOMAIN seq THEN <<seq[i]>> ELSE <<>>
    IN
    /\ \/ /\ page = "tokenization.js" /\ applied # <<"load">>
          /\ canvas' = << LET kept == SelectSeq(tokens, LAMBDA t : ~t.removed)
                          IN [ i \in DOMAIN kept |->
                                 [ text |-> kept[i].text,
                                   isLemma |-> kept[i].text # kept[i].original ] ] >>
       \/ /\ page = "bm25.js" /\ bm25Dom.scores # <<>>
          /\ canvas' = << IF bm25.scores = <<>> \/ bm25.vocab = <<>> THEN <<>>
                          ELSE bm25.scores >>
       \/ /\ page = "part_000" /\ bm25Dom.scores # <<>>
          /\ canvas' = IF bm25.scores = <<>> \/ bm25.vocab = <<>> THEN << <<>> >>
                       ELSE IF \E i \in DOMAIN bm25.scores : i \notin DOMAIN bm25.termContribs
                            THEN << bm25.scores, "TypeError" >>
                       ELSE << [ i \in DOMAIN bm25.scores |->
                                   [ bar |-> bm25.scores[i],
                                     segments |-> bm25.termContribs[i] ] ] >>
       \/ /\ page = "bag_of_words.js" /\ bowDom.scores # <<>>
          /\ canvas' = << [ i \in DOMAIN bow.vocab |->
                              [ term |-> bow.vocab[i], q |-> At(bow.qVec, i),
                                d1 |-> At(bow.d1Vec, i), d2 |-> At(bow.d2Vec, i) ] ] >>
       \/ /\ page = "part_001" /\ tfidfDom.scores # <<>>
          /\ canvas' = << [ i \in DOMAIN tfidf.vocab |->
                              [ term |-> tfidf.vocab[i], q |-> At(tfidf.queryTfidf, i),
                                docs |-> [ d \in DOMAIN tfidf.docsTfidf |->
                                             At(tfidf.docsTfidf[d], i) ] ] ] >>
    /\ UNCHANGED <<page, edits, tokVars, bm25Vars, bowVars, tfidfVars>>

\* The live page starts as every page does, with texts of EditTexts in the
\* fields the user edits and the sliders at their defaults.
LiveInit ==
    /\ Init
    /\ inputText \in EditTexts
    /\ \A f \in {"queryText", "d1Text", "d2Text", "d3Text"} :
          bm25Dom[f] \in EditTexts /\ tfidfDom[f] \in EditTexts
    /\ \A f \in {"queryText", "doc1Text"} : bowDom[f] \in EditTexts
    /\ bm25Dom.k1 \in { <<>>, <<"1",".","5">> }
    /\ bm25Dom.b \in { <<>>, <<"0",".","7","5">> }

LiveNext == Next \/ editField \/ draw

SpecLive == LiveInit /\ [][LiveNext]_vars

\* ------------------------------------------------------------------------
\* Properties of the tokenization page
\* ------------------------------------------------------------------------
\* The texts of the tokens with removed = false.
Surviving(toks) == { toks[i].text : i \in { j \in DOMAIN toks : ~toks[j].removed } }

\* C2: from the token list tokenizeText produces, applyLemmatization then
\* removeStopWords leaves the same surviving vocabulary (and the same shown
\* vocabulary) as removeStopWords then applyLemmatization.
C2_LemmatizeCommutesWithStopWords ==
    /\ applied = <<"applyLemmatization", "removeStopWords">> =>
          /\ Surviving(tokens) =
                Surviving(LemmatizeOp(RemoveStopWordsOp(TokenizeOp(inputText))))
          /\ vocabInfo =
                VocabularyOf(LemmatizeOp(RemoveStopWordsOp(TokenizeOp(inputText))))
    /\ applied = <<"removeStopWords", "applyLemmatization">> =>
          /\ Surviving(tokens) =
                Surviving(RemoveStopWordsOp(LemmatizeOp(TokenizeOp(inputText))))
          /\ vocabInfo =
                VocabularyOf(RemoveStopWordsOp(LemmatizeOp(TokenizeOp(inputText))))

C2_Witness ==
    /\ applied = <<"applyLemmatization", "removeStopWords">>
    /\ \E i \in DOMAIN tokens : tokens[i].removed
    /\ \E i \in DOMAIN tokens : ~tokens[i].removed /\ tokens[i].text # tokens[i].original

\* C9: running applyLemmatization (or removeStopWords) right after itself
\* changes no token and not the vocabulary, whatever ran before.
C9_SecondApplicationIsNoOp ==
    [][ (applied # <<>> /\ applied' = Append(applied, Last(applied)))
            => (tokens' = tokens /\ vocabInfo' = vocabInfo) ]_vars

C9_Witness ==
    /\ Len(applied) = 3
    /\ applied[3] = applied[2]
    /\ applied[1] # applied[2]
    /\ \E i \in DOMAIN tokens : tokens[i].removed
    /\ \E i \in DOMAIN tokens : tokens[i].text # tokens[i].original

\* C10: removeStopWords keeps the token array's length and order and every
\* token's text and original; a token is removed afterwards iff it was removed
\* before or its text is a stop word; no removed token's text is in the
\* vocabulary updateVocabularyInfo then shows.
C10_RemoveStopWordsFrame ==
    [][ applied' = Append(applied, "removeStopWords") =>
          /\ Len(tokens') = Len(tokens)
          /\ \A i \in DOMAIN tokens :
                /\ tokens'[i].text = tokens[i].text
                /\ tokens'[i].original = tokens[i].original
                /\ tokens'[i].removed = (tokens[i].removed \/ tokens[i].text \in stopWords)
          /\ \A i \in DOMAIN tokens' :
                tokens'[i].removed => tokens'[i].text \notin Range(vocabInfo')
          /\ Range(vocabInfo') = Surviving(tokens') ]_vars

C10_Witness ==
    /\ applied # <<>> /\ Last(applied) = "removeStopWords"
    /\ \E i \in DOMAIN tokens : tokens[i].removed
    /\ \E i \in DOMAIN tokens : ~tokens[i].removed
    /\ vocabInfo # <<>>

\* ------------------------------------------------------------------------
\* Properties of the BM25 pages
\* ------------------------------------------------------------------------
\* The terms of the vocabulary that occur in document i, in vocabulary order.
PresentTerms(i) == SelectSeq(bm25.vocab, LAMBDA t : Count(bm25.docs[i], t) > 0)

Bm25Computed == bm25.scores # <<>>

\* C1: on both BM25 pages, a query term that does not occur in a document
\* has the contribution 0 stored for that document, and the document's total
\* is the sum of the contributions of the terms that do occur in it,
\* whatever idf, k1, b and the lengths are.
C1_AbsentTermContributesZero ==
    \A i \in DOMAIN bm25.scores :
        /\ \A t \in Range(bm25.vocab) :
              Count(bm25.docs[i], t) = 0 => bm25.termContribs[i][t] = Num(0)
        /\ bm25.scores[i] =
              JsSum([ j \in DOMAIN PresentTerms(i) |-> bm25.termContribs[i][PresentTerms(i)[j]] ])

\* A term with a negative idf is absent from a document another query term
\* occurs in.
C1_Witness ==
    /\ page = "part_000"
    /\ \E i \in DOMAIN bm25.scores : \E t, u \in Range(bm25.vocab) :
          /\ Sign(bm25.idf[t]) = -1
          /\ Count(bm25.docs[i], t) = 0
          /\ bm25.termContribs[i][t] = Num(0)
          /\ Count(bm25.docs[i], u) > 0
          /\ bm25.scores[i] = bm25.termContribs[i][u]
          /\ ~IsZero(bm25.scores[i])

\* C3: on bm25.js with k1 = 0 and any number b, every document's total is
\* the sum of idf over the distinct query terms that occur in the document.
C3_K1ZeroSumsIdf ==
    (page = "bm25.js" /\ ParseFloat(bm25Dom.k1) = Num(0) /\ IsFinite(ParseFloat(bm25Dom.b)))
        => \A i \in DOMAIN bm25.scores :
              bm25.scores[i] =
                  JsSum([ j \in DOMAIN PresentTerms(i) |-> bm25.idf[PresentTerms(i)[j]] ])

\* With b = 0.75, a document longer than the average holds a query term
\* twice and another document holds two query terms.
C3_Witness ==
    /\ page = "bm25.js" /\ ParseFloat(bm25Dom.k1) = Num(0)
    /\ ParseFloat(bm25Dom.b) = Frac(3, 4)
    /\ \E i \in DOMAIN bm25.scores :
          /\ \E t \in Range(bm25.vocab) : Count(bm25.docs[i], t) = 2
          /\ Num(bm25.docLengths[i]) # bm25.avgDocLength
          /\ ~IsZero(bm25.scores[i])
    /\ \E i \in DOMAIN bm25.scores :
          /\ Len(PresentTerms(i)) = 2
          /\ ~IsRational(bm25.scores[i])

\* C4 as stated: on every BM25 page idf(t) is ln((N + 0.5) / (df(t) + 0.5)),
\* which is never negative.
C4_EveryPageSmoothedIdf ==
    \A t \in Range(bm25.vocab) :
        /\ bm25.idf[t] = IdfSmoothed(Len(bm25.docs), DocFrequency(bm25.docs, t))
        /\ Sign(bm25.idf[t]) \in {0, 1}

\* C4: bm25.js computes idf(t) = ln((N + 0.5) / (df(t) + 0.5)), never
\* negative; unnamed/part_000 computes ln((N - df + 0.5) / (df + 0.5 + 1e-10)),
\* which is negative exactly when df(t) > N - df(t).
C4_IdfPerPage ==
    \A t \in Range(bm25.vocab) :
        LET N == Len(bm25.docs)
            nt == DocFrequency(bm25.docs, t)
        IN /\ page = "bm25.js" =>
                /\ bm25.idf[t] = IdfSmoothed(N, nt)
                /\ Sign(bm25.idf[t]) \in {0, 1}
           /\ page = "part_000" =>
                /\ bm25.idf[t] = IdfClassic(N, nt)
                /\ Sign(bm25.idf[t]) = (IF 2 * nt > N THEN -1 ELSE 1)

\* One query term is in every document and another in none, on either page.
C4_Witness ==
    /\ Bm25Computed
    /\ \E t, u \in Range(bm25.vocab) :
          /\ DocFrequency(bm25.docs, t) = Len(bm25.docs)
          /\ DocFrequency(bm25.docs, u) = 0
          /\ Sign(bm25.idf[t]) = (IF page = "bm25.js" THEN 0 ELSE -1)
          /\ Sign(bm25.idf[u]) = 1

\* C7 as stated: with numbers for k1 and b, every total and every
\* contribution computeBm25 stores is a finite number.
C7_NumericParametersGiveFiniteScores ==
    (page = "bm25.js" /\ IsFinite(ParseFloat(bm25Dom.k1)) /\ IsFinite(ParseFloat(bm25Dom.b)))
        => \A i \in DOMAIN bm25.scores :
              /\ IsFinite(bm25.scores[i])
              /\ \A t \in Range(bm25.vocab) : IsFinite(bm25.termContribs[i][t])

\* C8 as stated: when k1 or b does not parse, the page shows an invalid
\* parameter condition in place of scores and stores no NaN.
C8_InvalidParameterReported ==
    (page = "bm25.js" /\ Bm25Computed
        /\ (IsNaN(ParseFloat(bm25Dom.k1)) \/ IsNaN(ParseFloat(bm25Dom.b))))
        => /\ \A i \in DOMAIN bm25.scores :
                /\ ~IsNaN(bm25.scores[i])
                /\ \A t \in Range(bm25.vocab) : ~IsNaN(bm25.termContribs[i][t])
           /\ \A i \in DOMAIN bm25Dom.scores : bm25Dom.scores[i] # ToFixed(NaN, 3)

\* ------------------------------------------------------------------------
\* Properties of the bag-of-words and TF-IDF pages
\* ------------------------------------------------------------------------
\* the query and the documents' vectors and scores of the bag-of-words page
BowPairs == { [vec |-> bow.d1Vec, score |-> bow.scores.doc1],
              [vec |-> bow.d2Vec, score |-> bow.scores.doc2] }

\* C5 as stated: on both pages every cosine stored is a number from 0 to 1,
\* and exactly 0 when the norm of the query or of the document is 0.  (For
\* the TF-IDF page, whose numbers are kept exact: the cosine is 0, or the
\* quotient of a dot product that is not negative by two norms above 0.)
C5_CosineWithinUnitInterval ==
    /\ page = "bag_of_words.js" =>
          \A p \in BowPairs :
              /\ p.score.cos.k = "finite"
              /\ FCmp(FZero, p.score.cos) <= 0
              /\ FCmp(p.score.cos, FromNat(1)) <= 0
              /\ (FIsZero(Mag(bow.qVec)) \/ FIsZero(Mag(p.vec))) => p.score.cos = FZero
    /\ page = "part_001" =>
          \A d \in DOMAIN tfidf.scores :
              LET s == tfidf.scores[d]
                  qMag == vectorMagnitude(tfidf.queryTfidf)
                  dMag == vectorMagnitude(tfidf.docsTfidf[d])
              IN /\ Sign(s.dot) \in {0, 1}
                 /\ IF IsZero(qMag) \/ IsZero(dMag) THEN s.cos = Num(0)
                    ELSE s.cos = [k |-> "quotient", dot |-> s.dot, qMag |-> qMag, dMag |-> dMag]

\* C6: with a query that has no tokens, the bag-of-words and the TF-IDF
\* page store dot product 0 and cosine 0 for every document, and a BM25
\* page stores total 0 and no contribution for every document.
C6_EmptyQueryScoresZero ==
    /\ (page = "bag_of_words.js" /\ bowDom.scores # <<>> /\ textToTokens(bowDom.queryText) = <<>>) =>
          \A p \in BowPairs : p.score.dot = FZero /\ p.score.cos = FZero
    /\ (page = "part_001" /\ tfidfDom.scores # <<>> /\ textToTokens(tfidfDom.queryText) = <<>>) =>
          /\ Len(tfidf.scores) = 3
          /\ \A d \in DOMAIN tfidf.scores :
                tfidf.scores[d].dot = Num(0) /\ tfidf.scores[d].cos = Num(0)
    /\ (page \in {"bm25.js", "part_000"} /\ Bm25Computed
            /\ textToTokens(bm25Dom.queryText) = <<>>) =>
          /\ Len(bm25.scores) = 3
          /\ \A i \in DOMAIN bm25.scores :
                bm25.scores[i] = Num(0) /\ bm25.termContribs[i] = <<>>

\* The bag-of-words page has computed the scores for a query of punctuation
\* only and two documents with words: the vocabulary is not empty, the
\* query's vector is all 0 and the documents' norms are not 0.
C6_Witness ==
    /\ page = "bag_of_words.js"
    /\ bowDom.scores # <<>>
    /\ bowDom.queryText # <<>>
    /\ textToTokens(bowDom.queryText) = <<>>
    /\ bow.vocab # <<>>
    /\ \A p \in BowPairs : ~FIsZero(Mag(p.vec)) /\ p.score.cos = FZero
    /\ bowDom.scores[2] = <<"0", ".", "0", "0">>

\* ------------------------------------------------------------------------
\* Further properties of the tokenization page
\* ------------------------------------------------------------------------
\* C11 as stated: applyLemmatization changes a token's text only when the
\* text is a surface form of lemmaMapping, and then to that form's lemma;
\* every other token text is left as it is.
C11_LemmatizeOnlySurfaceForms ==
    [][ applied' = Append(applied, "applyLemmatization") =>
          \A i \in DOMAIN tokens :
              tokens'[i].text # tokens[i].text =>
                  \E k \in DOMAIN lemmaMapping :
                      /\ tokens[i].text \in Range(lemmaMapping[k].forms)
                      /\ tokens'[i].text = lemmaMapping[k].lemma ]_vars

\* ------------------------------------------------------------------------
\* Further properties of the scoring pages
\* ------------------------------------------------------------------------
\* C12: after a computation the vocabulary is the duplicate-free sequence of
\* the in-scope tokens in first-occurrence order: the query tokens on a BM25
\* page (a term of a document only is in no vocabulary, idf or contribution
\* map), the query tokens followed by the documents' tokens in order on the
\* bag-of-words and the TF-IDF page.
C12_VocabularyFirstOccurrenceOrder ==
    LET FirstOccurrenceOrder(v, scope) ==
            /\ Range(v) = Range(scope)
            /\ \A i, j \in DOMAIN v : i < j =>
                  /\ v[i] # v[j]
                  /\ \E m \in DOMAIN scope :
                        /\ scope[m] = v[i]
                        /\ \A n \in 1..m : scope[n] # v[j]
    IN
    /\ (page \in {"bm25.js", "part_000"} /\ Bm25Computed) =>
          /\ FirstOccurrenceOrder(bm25.vocab, textToTokens(bm25Dom.queryText))
          /\ DOMAIN bm25.idf = Range(textToTokens(bm25Dom.queryText))
          /\ \A i \in DOMAIN bm25.termContribs :
                DOMAIN bm25.termContribs[i] = Range(textToTokens(bm25Dom.queryText))
    /\ (page = "bag_of_words.js" /\ bowDom.scores # <<>>) =>
          FirstOccurrenceOrder(bow.vocab,
              textToTokens(bowDom.queryText) \o textToTokens(bowDom.doc1Text)
                  \o textToTokens(bowDom.doc2Text))
    /\ (page = "part_001" /\ tfidfDom.scores # <<>>) =>
          FirstOccurrenceOrder(tfidf.vocab,
              textToTokens(tfidfDom.queryText) \o textToTokens(tfidfDom.d1Text)
                  \o textToTokens(tfidfDom.d2Text) \o textToTokens(tfidfDom.d3Text))

\* On the bag-of-words page the query repeats its first word after another,
\* and document 1 brings a word of its own between two words of the query.
C12_Witness ==
    /\ page = "bag_of_words.js"
    /\ bowDom.scores # <<>>
    /\ textToTokens(bowDom.queryText) = << <<"b">>, <<"a">>, <<"b">> >>
    /\ textToTokens(bowDom.doc1Text) = << <<"a">>, <<"c">>, <<"b">> >>
    /\ bow.vocab = << <<"b">>, <<"a">>, <<"c">> >>

C14_MatchingDocumentOutranks ==
    (/\ page = "bm25.js" /\ Bm25Computed
     /\ IsFinite(ParseFloat(bm25Dom.k1)) /\ Sign(ParseFloat(bm25Dom.k1)) \in {0, 1}
     /\ IsFinite(ParseFloat(bm25Dom.b)) /\ Sign(ParseFloat(bm25Dom.b)) \in {0, 1}
     /\ Sign(JsSub(Num(1), ParseFloat(bm25Dom.b))) \in {0, 1})
        => \A j \in DOMAIN bm25.scores :
              PresentTerms(j) = <<>> =>
                  /\ bm25.scores[j] = Num(0)
                  /\ \A i \in DOMAIN bm25.scores :
                        PresentTerms(i) # <<>> =>
                            Sign(JsSub(bm25.scores[i], bm25.scores[j])) = 1

\* With k1 = 1.5 and b = 0.75 and a query of two terms, one document holds
\* both, one holds one of them and one holds none.
C14_Witness ==
    /\ page = "bm25.js" /\ Bm25Computed
    /\ ParseFloat(bm25Dom.k1) = Frac(3, 2)
    /\ ParseFloat(bm25Dom.b) = Frac(3, 4)
    /\ Len(bm25.vocab) = 2
    /\ \E i, j, m \in DOMAIN bm25.scores :
          /\ Len(PresentTerms(i)) = 2
          /\ Len(PresentTerms(m)) = 1
          /\ PresentTerms(j) = <<>>
          /\ bm25.scores[j] = Num(0)
          /\ Sign(bm25.scores[i]) = 1
          /\ Sign(bm25.scores[m]) = 1

\* ------------------------------------------------------------------------
\* Properties of the tokenizer
\* ------------------------------------------------------------------------
\* C15: right after tokenizeText every token is a non-empty string of
\* letters, digits and apostrophes (none for the empty text), and the
\* tokens joined by spaces tokenize to the same tokens; textToTokens of the
\* scoring pages gives the same strings.
C15_TokenizerOutput ==
    (page = "tokenization.js" /\ applied = <<>>) =>
        LET texts == [ i \in DOMAIN tokens |-> tokens[i].text ]
        IN /\ \A i \in DOMAIN texts :
                 /\ Len(texts[i]) > 0
                 /\ Range(texts[i]) \subseteq
                        Range(LowerSeq) \cup Range(UpperSeq) \cup Range(DigitSeq) \cup {"'"}
           /\ inputText = <<>> => tokens = <<>>
           /\ TokenizeOp(Join(texts, <<" ">>)) = tokens
           /\ textToTokens(inputText) = texts
           /\ textToTokens(Join(texts, <<" ">>)) = texts

\* The text starts with a separator or holds an upper-case letter, and its
\* two tokens hold an apostrophe and a digit.
C15_Witness ==
    /\ page = "tokenization.js" /\ applied = <<>>
    /\ Len(tokens) = 2
    /\ inputText # tokens[1].text \o <<" ">> \o tokens[2].text
    /\ \E i \in DOMAIN tokens : "'" \in Range(tokens[i].text)
    /\ \E i \in DOMAIN tokens : Range(tokens[i].text) \cap Range(DigitSeq) # {}

C17_DrawSeesCompletedComputation ==
    /\ page \in {"bm25.js", "part_000"} =>
          \/ bm25.scores = <<>>
          \/ /\ Len(bm25.docs) = Len(<<"d1Text", "d2Text", "d3Text">>)
             /\ Len(bm25.scores) = Len(bm25.docs)
             /\ Len(bm25.termContribs) = Len(bm25.docs)
             /\ (canvas # <<>> /\ canvas[1] # <<>>) => Len(canvas[1]) = Len(bm25.docs)
    /\ page = "bag_of_words.js" =>
          /\ Len(bow.qVec) = Len(bow.vocab)
          /\ Len(bow.d1Vec) = Len(bow.vocab)
          /\ Len(bow.d2Vec) = Len(bow.vocab)
          /\ canvas # <<>> =>
                \A i \in DOMAIN canvas[1] :
                    <<>> \notin { canvas[1][i].q, canvas[1][i].d1, canvas[1][i].d2 }
    /\ page = "part_001" =>
          /\ Len(tfidf.queryTfidf) = Len(tfidf.vocab)
          /\ \A d \in DOMAIN tfidf.docsTfidf : Len(tfidf.docsTfidf[d]) = Len(tfidf.vocab)
          /\ tfidfDom.scores # <<>> => Len(tfidf.docsTfidf) = Len(<<"d1Text", "d2Text", "d3Text">>)
          /\ canvas # <<>> =>
                \A i \in DOMAIN canvas[1] :
                    /\ canvas[1][i].q # <<>>
                    /\ \A d \in DOMAIN canvas[1][i].docs : canvas[1][i].docs[d] # <<>>
    /\ Len(canvas) < Len(<<"bars", "TypeError">>)

\* On the TF-IDF page, after a computation, an edit and the computation on
\* the edited text, a frame has painted the two terms of the vocabulary, each
\* with the weights of the query and of the three documents.
C17_Witness ==
    /\ page = "part_001"
    /\ edits = 1
    /\ tfidf.vocab = << <<"a">>, <<"d","o","g","s">> >>
    /\ canvas # <<>>
    /\ Len(canvas[1]) = 2
    /\ \A i \in DOMAIN canvas[1] :
          /\ canvas[1][i].term = tfidf.vocab[i]
          /\ canvas[1][i].q = <<tfidf.queryTfidf[i]>>
          /\ Len(canvas[1][i].docs) = 3

\* ------------------------------------------------------------------------
\* A further property of the tokenization page
\* ------------------------------------------------------------------------
\* C18: once removeStopWords has run since the last tokenizeText, no token
\* that is not removed has a stop word as its text, whatever sequence of
\* applyLemmatization and removeStopWords follows; neither operation clears a
\* removed flag, and applyLemmatization changes no removed token.
C18_StopWordsStayRemoved ==
    /\ []( "removeStopWords" \in Range(applied) =>
              \A i \in DOMAIN tokens : ~tokens[i].removed => tokens[i].text \notin stopWords )
    /\ [][ (applied # applied' /\ applied' # <<>>) =>
              /\ Len(tokens') = Len(tokens)
              /\ \A i \in DOMAIN tokens :
                    tokens[i].removed =>
                        /\ tokens'[i].removed
                        /\ Last(applied') = "applyLemmatization" => tokens'[i] = tokens[i] ]_vars

\* Stop words were removed, the lemmatizer then changed a token that was
\* left, and stop words were removed once more.
C18_Witness ==
    /\ applied = <<"removeStopWords", "applyLemmatization", "removeStopWords">>
    /\ \E i \in DOMAIN tokens : tokens[i].removed /\ tokens[i].text \in stopWords
    /\ \E i \in DOMAIN tokens :
          /\ ~tokens[i].removed
          /\ tokens[i].text # tokens[i].original
          /\ tokens[i].text \notin stopWords

====
